---------------------------- MODULE Spec2Model ----------------------------
(***************************************************************************)
(* A model of the site's presentational components (StatusIndicator,       *)
(* Badge, TechBadge, TerminalWindow, Feature, HomepageFeatures, About,     *)
(* BlogSidebarMobile), of the class-name merge utility cn, and of the      *)
(* concurrent algorithms printed in the blog posts.                        *)
(*                                                                         *)
(* A class string is modelled as the sequence of its whitespace-separated  *)
(* class tokens.  A JavaScript value is a record [t, v]: t is its type     *)
(* ("undefined", "null", "boolean", "number", "string"), v its text.       *)
(***************************************************************************)
EXTENDS Integers, Sequences, FiniteSets, TLC

VARIABLES
    FeatureList,    \* module-level const of the homepage features module
    socialLinks,    \* module-level const of pages/about.js
    badgeVariants,  \* the variant table handed to cva(...) in ui/badge
    last,           \* the most recent call: [comp, props, out]
    ref,            \* an earlier call kept for comparison (history variable)
    pathname,       \* the router location the host framework renders at
    flag,           \* PetersonsLock.flag
    turn,           \* PetersonsLock.turn
    pc,             \* position of each thread of the PetersonsLock client
    acquired,       \* how many times each thread has entered the critical section
    spun,           \* whether each thread's lock call has run its loop body
    decision,       \* Consensus.decision
    decidePc,       \* position of each thread calling Consensus.decide
    proposed,       \* the argument of each thread's decide call
    decided,        \* the value each thread's decide call returned
    casSucceeded,   \* the threads whose compareAndSet(null, proposed) returned true
    decideSteps,    \* how many steps each thread has taken inside decide
    halted,         \* the threads that stopped for good inside decide
    consensus,      \* UniversalQueue.consensus: the decision of that Consensus object
    log,            \* UniversalQueue.log
    state,          \* UniversalQueue.state
    monitor,        \* the thread inside synchronized(log), 0 when none is
    qpc,            \* position of each thread calling enqueue or dequeue
    local,          \* each thread's locals: op, winner, the log iterator
    history,        \* the calls that returned, in order: [thread, op, result]
    invoked,        \* how many enqueue and dequeue calls were started
    stopped,        \* the threads that have stopped for good
    value,          \* LockFreeCounter.value
    cpc,            \* position of each thread calling increment or decrement
    delta,          \* +1 in a thread's increment call, -1 in its decrement call
    current,        \* the local variable current of each thread's call
    increments,     \* how many increment calls have returned
    decrements,     \* how many decrement calls have returned
    started,        \* how many increment and decrement calls were started
    changedSinceGet,\* per thread: another thread's CAS succeeded since its get()
    casFailures,    \* how many compareAndSet calls on value returned false
    fruitless,      \* steps taken since a call last returned
    lockState,      \* CASLock.state: 0 = unlocked, 1 = locked
    lpc,            \* position of each thread: "idle", or "lock" inside lock()
    holders,        \* the threads that took the lock and have not called unlock()
    tried,          \* what each thread's last tryLock() returned
    waited,         \* steps taken since a CASLock call last returned
    posts           \* the blog posts the site generator has loaded

configVars == <<FeatureList, socialLinks, badgeVariants>>
renderVars ==
    <<FeatureList, socialLinks, badgeVariants, last, ref, pathname>>
petersonVars == <<flag, turn, pc, acquired, spun>>
consensusVars ==
    <<decision, decidePc, proposed, decided, casSucceeded, decideSteps, halted>>
queueVars ==
    <<consensus, log, state, monitor, qpc, local, history, invoked, stopped>>
counterVars ==
    <<value, cpc, delta, current, increments, decrements, started,
      changedSinceGet, casFailures, fruitless>>
lockVars == <<lockState, lpc, holders, tried, waited>>
blogVars == <<consensusVars, queueVars, counterVars, lockVars, posts>>
ConsensusFrame == <<renderVars, petersonVars, queueVars, counterVars, lockVars,
      posts>>
QueueFrame == <<renderVars, petersonVars, consensusVars, counterVars, lockVars,
      posts>>
CounterFrame == <<renderVars, petersonVars, consensusVars, queueVars, lockVars,
      posts>>
LockFrame == <<renderVars, petersonVars, consensusVars, queueVars, counterVars,
      posts>>
vars == <<renderVars, petersonVars, blogVars>>

---------------------------------------------------------------------------
(* Bounds *)

\* the largest number of class tokens in one class string given by a caller
MaxClasses == 2

\* the largest number of items in the sidebar prop
MaxItems == 2

\* how many times a thread of the PetersonsLock client takes the lock
MaxRounds == 2

\* how many threads call decide on the one Consensus object
NumDeciders == 3

\* how many threads share the UniversalQueue
NumQueueThreads == 2

\* how many enqueue and dequeue calls are started in all
MaxQueueCalls == 3

\* how many threads share the LockFreeCounter
NumCounterThreads == 2

\* how many increment and decrement calls are started in all
MaxCounterCalls == 4

\* how many threads share the CASLock
NumLockThreads == 3

---------------------------------------------------------------------------
(* JavaScript values *)

Undefined == [t |-> "undefined", v |-> ""]
Null == [t |-> "null", v |-> ""]
False == [t |-> "boolean", v |-> "false"]
Zero == [t |-> "number", v |-> "0"]
Str(s) == [t |-> "string", v |-> s]

\* ToBoolean
Truthy(x) ==
    CASE x.t = "undefined" -> FALSE
      [] x.t = "null" -> FALSE
      [] x.t = "boolean" -> x.v = "true"
      [] x.t = "number" -> x.v # "0"
      [] OTHER -> x.v # ""

\* ToPropertyKey: the key a value names in obj[value]
ToKey(x) ==
    CASE x.t = "undefined" -> "undefined"
      [] x.t = "null" -> "null"
      [] OTHER -> x.v

\* a default parameter value applies to undefined only
Default(x, d) == IF x = Undefined THEN d ELSE x

---------------------------------------------------------------------------
(* Class strings *)

\* a class string prop: undefined, null, false, or a string of tokens
NoClass == [t |-> "undefined", v |-> <<>>, o |-> <<>>]
NullClass == [t |-> "null", v |-> <<>>, o |-> <<>>]
FalseClass == [t |-> "boolean", v |-> <<>>, o |-> <<>>]
Cls(tokens) == [t |-> "string", v |-> tokens, o |-> <<>>]
\* an object input of clsx: a sequence of [k, on] entries, in key order
Obj(entries) == [t |-> "object", v |-> <<>>, o |-> entries]

RECURSIVE ObjKeys(_)
ObjKeys(entries) ==
    IF entries = <<>> THEN <<>>
    ELSE (IF Head(entries).on THEN <<Head(entries).k>> ELSE <<>>)
             \o ObjKeys(Tail(entries))

\* clsx of one input, with every key of an object taken, whatever its value
ClsxOne_EveryKey(x) ==
    CASE x.t = "string" -> x.v
      [] x.t = "object" -> [i \in DOMAIN x.o |-> x.o[i].k]
      [] OTHER -> <<>>

\* clsx of one input
ClsxOne(x) ==
    CASE x.t = "string" -> x.v
      [] x.t = "object" -> ObjKeys(x.o)
      [] OTHER -> <<>>

\* clsx(inputs): the truthy inputs' classes, in input order
RECURSIVE clsx(_)
clsx(inputs) ==
    IF inputs = <<>> THEN <<>>
    ELSE ClsxOne(Head(inputs)) \o clsx(Tail(inputs))

\* the variant modifiers of a class, sorted and joined
ModifierId(c) ==
    CASE c \in {"focus:outline-none", "focus:ring-2", "focus:ring-primary-500",
                "focus:ring-offset-2"} -> "focus"
      [] c \in {"hover:bg-primary-700", "hover:bg-gray-200", "hover:bg-red-600",
                "hover:bg-gray-100", "hover:shadow-glow-green",
                "hover:gap-4"} -> "hover"
      [] c \in {"dark:text-green-400", "dark:text-gray-400",
                "dark:text-yellow-400", "dark:text-red-400",
                "dark:border-gray-600", "dark:bg-gray-800",
                "dark:text-gray-100", "dark:text-gray-300"} -> "dark"
      [] c \in {"dark:hover:bg-gray-700", "dark:hover:bg-gray-800"}
             -> "dark:hover"
      [] OTHER -> ""

\* the Tailwind class group of a class ("" for a class Tailwind does not know)
ClassGroupId(c) ==
    CASE c \in {"flex", "inline-flex", "hidden", "block"} -> "display"
      [] c \in {"items-center", "items-start"} -> "align-items"
      [] c \in {"gap-2", "gap-4", "hover:gap-4"} -> "gap"
      [] c \in {"w-2", "w-4"} -> "w"
      [] c \in {"h-2", "h-full"} -> "h"
      [] c \in {"rounded-full", "rounded-lg", "rounded-none"} -> "rounded"
      [] c \in {"overflow-hidden", "overflow-auto"} -> "overflow"
      [] c \in {"overflow-x-auto"} -> "overflow-x"
      [] c \in {"line-clamp-2"} -> "line-clamp"
      [] c \in {"border", "border-2"} -> "border-w"
      [] c \in {"border-transparent", "border-gray-300",
                "dark:border-gray-600"} -> "border-color"
      [] c \in {"shadow-sm", "shadow-none"} -> "shadow"
      [] c \in {"hover:shadow-glow-green"} -> "shadow-color"
      [] c \in {"p-1"} -> "p"
      [] c \in {"px-2.5", "px-4"} -> "px"
      [] c \in {"py-0.5", "py-2"} -> "py"
      [] c \in {"text-xs", "text-sm", "text-lg"} -> "font-size"
      [] c \in {"leading-relaxed"} -> "leading"
      [] c \in {"font-semibold", "font-bold"} -> "font-weight"
      [] c \in {"text-white", "text-gray-900", "text-gray-700",
                "text-green-600", "text-gray-500", "text-yellow-600",
                "text-red-600", "dark:text-green-400", "dark:text-gray-400",
                "dark:text-yellow-400", "dark:text-red-400",
                "dark:text-gray-100", "dark:text-gray-300"} -> "text-color"
      [] c \in {"bg-green-500", "bg-gray-400", "bg-yellow-500", "bg-red-500",
                "bg-primary-600", "bg-gray-100", "hover:bg-primary-700",
                "hover:bg-gray-200", "hover:bg-red-600", "hover:bg-gray-100",
                "dark:bg-gray-800", "dark:hover:bg-gray-700",
                "dark:hover:bg-gray-800"} -> "bg-color"
      [] c \in {"transition-colors", "transition-all"} -> "transition"
      [] c \in {"focus:outline-none"} -> "outline-style"
      [] c \in {"focus:ring-2"} -> "ring-w"
      [] c \in {"focus:ring-primary-500"} -> "ring-color"
      [] c \in {"focus:ring-offset-2"} -> "ring-offset-w"
      [] OTHER -> ""

\* the groups a class of group g also overrides
ConflictingClassGroups(g) ==
    CASE g = "p" -> {"px", "py", "ps", "pe", "pt", "pr", "pb", "pl"}
      [] g = "px" -> {"pr", "pl"}
      [] g = "py" -> {"pt", "pb"}
      [] g = "gap" -> {"gap-x", "gap-y"}
      [] g = "overflow" -> {"overflow-x", "overflow-y"}
      [] g = "line-clamp" -> {"display", "overflow"}
      [] g = "font-size" -> {"leading"}
      [] OTHER -> {}

\* the class ids one kept class puts in conflict: its own and its group's
ClassIdsOf(c) ==
    {<<ModifierId(c), g>> :
        g \in {ClassGroupId(c)} \cup ConflictingClassGroups(ClassGroupId(c))}

\* twMerge's loop: from the last class to the first, a class whose id is
\* in conflict is dropped; a kept Tailwind class puts its ids in conflict;
\* a class Tailwind does not know is always kept.
RECURSIVE MergeFrom(_, _, _)
MergeFrom(classes, i, inConflict) ==
    IF i = 0 THEN <<>>
    ELSE LET c == classes[i] IN
         IF ClassGroupId(c) = ""
         THEN MergeFrom(classes, i - 1, inConflict) \o <<c>>
         ELSE IF <<ModifierId(c), ClassGroupId(c)>> \in inConflict
         THEN MergeFrom(classes, i - 1, inConflict)
         ELSE MergeFrom(classes, i - 1, inConflict \cup ClassIdsOf(c)) \o <<c>>

twMerge(classes) == MergeFrom(classes, Len(classes), {})

\* an implementation that joins the inputs and resolves no conflict
cn_NoMerge(inputs) == clsx(inputs)

cn(inputs) == twMerge(clsx(inputs))

---------------------------------------------------------------------------
(* StatusIndicator *)

\* the statusConfig object literal
statusConfig ==
    [online |-> [color |-> <<"bg-green-500">>,
                 text |-> <<"text-green-600", "dark:text-green-400">>],
     offline |-> [color |-> <<"bg-gray-400">>,
                  text |-> <<"text-gray-500", "dark:text-gray-400">>],
     warning |-> [color |-> <<"bg-yellow-500">>,
                  text |-> <<"text-yellow-600", "dark:text-yellow-400">>],
     error |-> [color |-> <<"bg-red-500">>,
                text |-> <<"text-red-600", "dark:text-red-400">>]]

\* the properties every object literal inherits from Object.prototype
ObjectPrototypeKeys ==
    {"constructor", "toString", "toLocaleString", "valueOf",
     "hasOwnProperty", "isPrototypeOf", "propertyIsEnumerable", "__proto__"}

\* a table whose warning entry was pasted from the error entry
StatusLookup_Pasted(status) ==
    LET key == IF ToKey(status) = "warning" THEN "error" ELSE ToKey(status) IN
    IF key \in DOMAIN statusConfig
    THEN [truthy |-> TRUE, color |-> Cls(statusConfig[key].color),
          text |-> Cls(statusConfig[key].text)]
    ELSE [truthy |-> FALSE, color |-> NoClass, text |-> NoClass]

\* statusConfig[status]: an own entry, an inherited property (a truthy
\* object that has no color and no text), or undefined
StatusLookup(status) ==
    LET key == ToKey(status) IN
    IF key \in DOMAIN statusConfig
    THEN [truthy |-> TRUE, color |-> Cls(statusConfig[key].color),
          text |-> Cls(statusConfig[key].text)]
    ELSE IF key \in ObjectPrototypeKeys
    THEN [truthy |-> TRUE, color |-> NoClass, text |-> NoClass]
    ELSE [truthy |-> FALSE, color |-> NoClass, text |-> NoClass]

\* const config = statusConfig[status] || statusConfig.online
StatusConfigOf(status) ==
    IF StatusLookup(status).truthy THEN StatusLookup(status)
    ELSE StatusLookup(Str("online"))

\* a rendered element: its tag, its class tokens and its text
El(tag, className, text) ==
    [tag |-> tag, className |-> className, text |-> text]

\* {label && <span ...>{label}</span>}: the span for a truthy label; a
\* falsy label is itself the child, and the host renders a number as text
\* and undefined, null, false and "" as nothing
LabelChild(label, config) ==
    IF Truthy(label)
    THEN <<El("span", cn(<<Cls(<<"text-sm">>), config.text>>), label.v)>>
    ELSE IF label.t = "number" THEN <<El("#text", <<>>, label.v)>>
    ELSE <<>>

\* a body that merges the caller's classes before its own
StatusIndicatorBody_CallerFirst(status, label, className) ==
    LET config == StatusConfigOf(status) IN
    [className |-> cn(<<className, Cls(<<"flex", "items-center", "gap-2">>)>>),
     children |->
        <<El("div", cn(<<Cls(<<"w-2", "h-2", "rounded-full">>), config.color>>),
             "")>>
        \o LabelChild(label, config)]

StatusIndicatorBody(status, label, className) ==
    LET config == StatusConfigOf(status) IN
    [className |-> cn(<<Cls(<<"flex", "items-center", "gap-2">>), className>>),
     children |->
        <<El("div", cn(<<Cls(<<"w-2", "h-2", "rounded-full">>), config.color>>),
             "")>>
        \o LabelChild(label, config)]

\* StatusIndicator({ status = "online", label, className })
StatusIndicator(props) ==
    StatusIndicatorBody(Default(props.status, Str("online")), props.label,
                        props.className)

---------------------------------------------------------------------------
(* Badge, TechBadge *)

BadgeBase ==
    <<"inline-flex", "items-center", "rounded-full", "border", "px-2.5",
      "py-0.5", "text-xs", "font-semibold", "transition-colors",
      "focus:outline-none", "focus:ring-2", "focus:ring-primary-500",
      "focus:ring-offset-2">>

\* the configuration handed to cva
BadgeVariantsConfig ==
    [base |-> BadgeBase,
     variants |->
        [default |-> <<"border-transparent", "bg-primary-600", "text-white",
                       "hover:bg-primary-700">>,
         secondary |-> <<"border-gray-300", "bg-gray-100", "text-gray-900",
                         "hover:bg-gray-200", "dark:border-gray-600",
                         "dark:bg-gray-800", "dark:text-gray-100",
                         "dark:hover:bg-gray-700">>,
         destructive |-> <<"border-transparent", "bg-red-500", "text-white",
                           "hover:bg-red-600">>,
         outline |-> <<"text-gray-700", "border-gray-300",
                       "hover:bg-gray-100", "dark:text-gray-300",
                       "dark:border-gray-600", "dark:hover:bg-gray-800">>],
     defaultVariant |-> "default"]

\* cva's falsyToString
FalsyToString(x) ==
    IF x.t = "boolean" THEN Str(x.v)
    ELSE IF x = Zero THEN Str("0")
    ELSE x

\* a cva that gives every value the table lacks the default variant
cva_FallsBack(config, variant) ==
    LET key == IF /\ variant.t = "string"
                  /\ variant.v \in DOMAIN config.variants
               THEN variant.v
               ELSE config.defaultVariant
    IN clsx(<<Cls(config.base), Cls(config.variants[key])>>)

\* the function cva returns, applied to { variant }: the base classes and
\* the classes of the variant named by the prop, or by defaultVariants when
\* the prop is falsy; a null prop and a name the table lacks add no class
cva(config, variant) ==
    LET key == IF Truthy(FalsyToString(variant))
               THEN ToKey(FalsyToString(variant))
               ELSE config.defaultVariant
        variantCls == IF variant = Null THEN NoClass
                      ELSE IF key \in DOMAIN config.variants
                      THEN Cls(config.variants[key])
                      ELSE NoClass
    IN clsx(<<Cls(config.base), variantCls>>)

\* Badge({ className, variant, ...props })
Badge(config, props) ==
    [tag |-> "div",
     className |-> cn(<<Cls(cva(config, props.variant)), props.className>>),
     children |-> props.children]

\* a TechBadge with a text size of its own
TechBadge_Small(config, props) ==
    Badge(config,
          [variant |-> Default(props.variant, Str("secondary")),
           className |-> Cls(cn(<<Cls(<<"text-sm", "transition-colors">>),
                                   props.className>>)),
           children |-> props.children])

\* a TechBadge whose omitted variant is left to Badge's own default
TechBadge_NoDefault(config, props) ==
    Badge(config,
          [variant |-> props.variant,
           className |-> Cls(cn(<<Cls(<<"text-xs", "transition-colors">>),
                                   props.className>>)),
           children |-> props.children])

\* TechBadge({ children, variant = "secondary", className })
TechBadge(config, props) ==
    Badge(config,
          [variant |-> Default(props.variant, Str("secondary")),
           className |-> Cls(cn(<<Cls(<<"text-xs", "transition-colors">>),
                                   props.className>>)),
           children |-> props.children])

---------------------------------------------------------------------------
(* TerminalWindow *)

TerminalWindowBody(children, title, className) ==
    [className |-> cn(<<Cls(<<"rounded-lg", "overflow-hidden", "border",
                              "shadow-sm">>), className>>),
     title |-> title,
     children |-> children]

\* a signature without the default title
TerminalWindow_Untitled(props) ==
    TerminalWindowBody(props.children, props.title, props.className)

\* TerminalWindow({ children, title = "Example", className })
TerminalWindow(props) ==
    TerminalWindowBody(props.children, Default(props.title, Str("Example")),
                       props.className)

---------------------------------------------------------------------------
(* Feature, HomepageFeatures *)

\* the FeatureList literal (descriptions abridged, icons by code point)
FeatureListLiteral ==
    <<[title |-> "Infrastructure as Code", icon |-> "U+2699",
       description |-> "Comprehensive guides for Kubernetes, ...",
       status |-> Str("online")],
      [title |-> "Stream Processing", icon |-> "U+26A1",
       description |-> "Master Apache Flink, Kafka, ...",
       status |-> Str("online")],
      [title |-> "Developer Tools", icon |-> "U+1F6E0",
       description |-> "Code examples, best practices, ...",
       status |-> Str("online")]>>

\* Feature({icon, title, description, status})
Feature(props) ==
    [card |-> <<"h-full", "transition-all", "hover:shadow-glow-green">>,
     icon |-> props.icon,
     title |-> props.title,
     description |-> props.description,
     indicator |-> StatusIndicator([status |-> props.status,
                                    label |-> Str("ACTIVE"),
                                    className |-> NoClass])]

\* a map that stops one entry short
HomepageFeatures_DropLast(list) ==
    [i \in 1..(Len(list) - 1) |-> [key |-> i - 1, feature |-> Feature(list[i])]]

\* FeatureList.map((props, idx) => <Feature key={idx} {...props} />)
HomepageFeatures(list) ==
    [i \in 1..Len(list) |-> [key |-> i - 1, feature |-> Feature(list[i])]]

---------------------------------------------------------------------------
(* About *)

\* the socialLinks literal (icons by name)
socialLinksLiteral ==
    <<[name |-> "GitHub", url |-> "https://github.com/arunlakshman",
       icon |-> "svg:github"],
      [name |-> "LinkedIn", url |-> "https://www.linkedin.com/in/arun-laksh/",
       icon |-> "svg:linkedin"],
      [name |-> "X / Twitter", url |-> "https://twitter.com/arun_lakshman",
       icon |-> "svg:x"]>>

\* a map that titles each link with its url
About_UrlAsTitle(links) ==
    [i \in 1..Len(links) |->
        [key |-> links[i].name, href |-> links[i].url, target |-> "_blank",
         rel |-> "noopener noreferrer", className |-> "about-social-link",
         title |-> links[i].url, icon |-> links[i].icon,
         text |-> links[i].name]]

\* socialLinks.map((link) => <a key={link.name} ...>)
About(links) ==
    [i \in 1..Len(links) |->
        [key |-> links[i].name, href |-> links[i].url, target |-> "_blank",
         rel |-> "noopener noreferrer", className |-> "about-social-link",
         title |-> links[i].name, icon |-> links[i].icon,
         text |-> links[i].name]]

---------------------------------------------------------------------------
(* BlogSidebarMobile *)

\* the host keeps an unlisted post in the sidebar only on the post's own page
isVisible(item, path) == ~(item.unlisted /\ item.permalink # path)

useVisibleBlogSidebarItems(items, path) ==
    SelectSeq(items, LAMBDA item : isVisible(item, path))

Node(tag, links, items) == [tag |-> tag, links |-> links, items |-> items]

\* a fragment that puts the custom links after the blog items
BlogSidebarMobileSecondaryMenu_LinksLast(props, path) ==
    <<Node("BlogSidebarContent", <<>>,
           useVisibleBlogSidebarItems(props.sidebar.items, path)),
      Node("hr", <<>>, <<>>),
      Node("ul", <<[to |-> "/about", text |-> "About"]>>, <<>>)>>

\* the fragment's children: the custom links, the divider, the blog items
BlogSidebarMobileSecondaryMenu(props, path) ==
    <<Node("ul", <<[to |-> "/about", text |-> "About"]>>, <<>>),
      Node("hr", <<>>, <<>>),
      Node("BlogSidebarContent", <<>>,
           useVisibleBlogSidebarItems(props.sidebar.items, path))>>

---------------------------------------------------------------------------
(* Inputs *)

SeqsUpTo(S, n) == UNION {[1..k -> S] : k \in 0..n}

\* the classes a caller passes
CallerClasses ==
    {"gap-4", "hidden", "p-1", "px-4", "rounded-none", "custom-card"}

ClassNames ==
    {NoClass} \cup {Cls(c) : c \in SeqsUpTo(CallerClasses, MaxClasses)}

SampleClassNames == {NoClass, Cls(<<"gap-4">>)}

\* the inputs of cn: class strings, falsy values and objects
InputValues ==
    ClassNames \cup
    {NullClass, FalseClass,
     Obj(<<[k |-> "hidden", on |-> TRUE], [k |-> "gap-4", on |-> FALSE]>>),
     Obj(<<[k |-> "p-1", on |-> TRUE], [k |-> "px-4", on |-> TRUE]>>)}

Statuses ==
    {Undefined, Null, Str("online"), Str("offline"), Str("warning"),
     Str("error"), Str(""), Str("constructor"), Str("toString"), Str("busy")}

Labels == {Undefined, Null, Str(""), Zero, Str("ACTIVE")}

Variants ==
    {Undefined, Null, Str(""), Str("default"), Str("secondary"),
     Str("destructive"), Str("outline"), Str("ghost")}

Titles == {Undefined, Str("Example"), Str("shell")}

StatusIndicatorProps(full) ==
    IF full
    THEN [status : Statuses, label : Labels, className : ClassNames]
    ELSE [status : {Undefined, Str("online"), Str("error"), Str("busy")},
          label : {Undefined, Str("ACTIVE")}, className : SampleClassNames]

BadgeProps(full) ==
    IF full
    THEN [variant : Variants, className : ClassNames, children : {"Flink"}]
    ELSE [variant : {Undefined, Str("outline")},
          className : SampleClassNames, children : {"Flink"}]

TerminalWindowProps(full) ==
    IF full
    THEN [title : Titles, className : ClassNames, children : {"$ yarn start"}]
    ELSE [title : {Undefined, Str("shell")}, className : SampleClassNames,
          children : {"$ yarn start"}]

FeatureProps ==
    {FeatureListLiteral[i] : i \in 1..Len(FeatureListLiteral)} \cup
    [title : {"Drafts"}, icon : {"U+270F"}, description : {"Work in progress"},
     status : {Undefined, Str("warning"), Str("draft")}]

SidebarItems ==
    {[title |-> "CAS", permalink |-> "/blog/cas", unlisted |-> FALSE],
     [title |-> "Flink RPC", permalink |-> "/blog/flink-rpc", unlisted |-> TRUE],
     [title |-> "Draft", permalink |-> "/blog/draft", unlisted |-> TRUE]}

SidebarProps(full) ==
    IF full
    THEN {[sidebar |-> [title |-> "Recent posts", items |-> items]] :
            items \in SeqsUpTo(SidebarItems, MaxItems)}
    ELSE {[sidebar |-> [title |-> "Recent posts", items |-> items]] :
            items \in {<<>>,
                       <<[title |-> "CAS", permalink |-> "/blog/cas",
                          unlisted |-> FALSE],
                         [title |-> "Flink RPC",
                          permalink |-> "/blog/flink-rpc",
                          unlisted |-> TRUE]>>}}

Pathnames == {"/blog/cas", "/blog/flink-rpc"}

---------------------------------------------------------------------------
(* The host calls a component (or cn) and takes what it returns *)

Idle == [comp |-> "", props |-> <<>>, at |-> "", out |-> <<>>]
IsIdle(call) == call.comp = ""

\* a synchronous call that writes nothing but its result
Returned(comp, props, out) ==
    /\ IsIdle(last)
    /\ last' = [comp |-> comp, props |-> props, at |-> pathname, out |-> out]
    /\ UNCHANGED <<ref, pathname>>
    /\ UNCHANGED <<petersonVars, blogVars>>

CallCn(inputs) ==
    /\ Returned("cn", inputs, cn(inputs))
    /\ UNCHANGED configVars

RenderStatusIndicator(props) ==
    /\ Returned("StatusIndicator", props, StatusIndicator(props))
    /\ UNCHANGED configVars

RenderBadge(props) ==
    /\ Returned("Badge", props, Badge(badgeVariants, props))
    /\ UNCHANGED configVars

RenderTechBadge(props) ==
    /\ Returned("TechBadge", props, TechBadge(badgeVariants, props))
    /\ UNCHANGED configVars

RenderTerminalWindow(props) ==
    /\ Returned("TerminalWindow", props, TerminalWindow(props))
    /\ UNCHANGED configVars

RenderFeature(props) ==
    /\ Returned("Feature", props, Feature(props))
    /\ UNCHANGED configVars

\* a render that reverses the list in place before mapping it
RenderHomepageFeatures_Reverse ==
    /\ Returned("HomepageFeatures", <<>>,
                HomepageFeatures([i \in 1..Len(FeatureList) |->
                                     FeatureList[Len(FeatureList) + 1 - i]]))
    /\ FeatureList' = [i \in 1..Len(FeatureList) |->
                          FeatureList[Len(FeatureList) + 1 - i]]
    /\ UNCHANGED <<socialLinks, badgeVariants>>

RenderHomepageFeatures ==
    /\ Returned("HomepageFeatures", <<>>, HomepageFeatures(FeatureList))
    /\ UNCHANGED configVars

\* a render that reverses the links in place before mapping them
RenderAbout_Reverse ==
    /\ Returned("About", <<>>,
                About([i \in 1..Len(socialLinks) |->
                          socialLinks[Len(socialLinks) + 1 - i]]))
    /\ socialLinks' = [i \in 1..Len(socialLinks) |->
                          socialLinks[Len(socialLinks) + 1 - i]]
    /\ UNCHANGED <<FeatureList, badgeVariants>>

RenderAbout ==
    /\ Returned("About", <<>>, About(socialLinks))
    /\ UNCHANGED configVars

RenderBlogSidebarMobile(props) ==
    /\ Returned("BlogSidebarMobile", props,
                BlogSidebarMobileSecondaryMenu(props, pathname))
    /\ UNCHANGED configVars

\* the host has taken the output of the call
Commit ==
    /\ ~IsIdle(last)
    /\ last' = Idle
    /\ UNCHANGED <<ref, pathname>>
    /\ UNCHANGED configVars
    /\ UNCHANGED <<petersonVars, blogVars>>

\* the same, and the call is kept for comparison with later ones
CommitAndKeep ==
    /\ ~IsIdle(last)
    /\ last' = Idle
    /\ ref' = last
    /\ UNCHANGED pathname
    /\ UNCHANGED configVars
    /\ UNCHANGED <<petersonVars, blogVars>>

\* the reader moves to another page between two renders
Navigate(path) ==
    /\ IsIdle(last)
    /\ path # pathname
    /\ pathname' = path
    /\ UNCHANGED <<last, ref>>
    /\ UNCHANGED configVars
    /\ UNCHANGED <<petersonVars, blogVars>>

---------------------------------------------------------------------------
(* PetersonsLock and its two client threads *)

\* a count that is kept up to cap
Bump(n, cap) == IF n < cap THEN n + 1 ELSE n

Threads == {0, 1}
Other(i) == 1 - i

\* the turn a thread gives away: the other thread's
TurnGiven_Own(i) == i

\* a lock that gives the turn to thread 0, whoever calls it
TurnGiven_Zero(i) == 0

TurnGiven(i) == Other(i)

\* lock: flag[i] = true
SetFlag(i) ==
    /\ pc[i] = "idle"
    /\ flag' = [flag EXCEPT ![i] = TRUE]
    /\ pc' = [pc EXCEPT ![i] = "setTurn"]
    /\ spun' = [spun EXCEPT ![i] = FALSE]
    /\ UNCHANGED <<turn, acquired>>
    /\ UNCHANGED <<renderVars, blogVars>>

\* lock: turn = other
SetTurn(i) ==
    /\ pc[i] = "setTurn"
    /\ turn' = TurnGiven(i)
    /\ pc' = [pc EXCEPT ![i] = "readFlag"]
    /\ UNCHANGED <<flag, acquired, spun>>
    /\ UNCHANGED <<renderVars, blogVars>>

\* lock: the read of flag[other] in the loop condition
ReadFlag(i) ==
    /\ pc[i] = "readFlag"
    /\ IF flag[Other(i)]
       THEN pc' = [pc EXCEPT ![i] = "readTurn"] /\ UNCHANGED acquired
       ELSE /\ pc' = [pc EXCEPT ![i] = "cs"]
            /\ acquired' = [acquired EXCEPT ![i] = Bump(@, MaxRounds)]
    /\ UNCHANGED <<flag, turn, spun>>
    /\ UNCHANGED <<renderVars, blogVars>>

\* lock: the read of turn in the loop condition
ReadTurn(i) ==
    /\ pc[i] = "readTurn"
    /\ IF turn = Other(i)
       THEN pc' = [pc EXCEPT ![i] = "yield"] /\ UNCHANGED acquired
       ELSE /\ pc' = [pc EXCEPT ![i] = "cs"]
            /\ acquired' = [acquired EXCEPT ![i] = Bump(@, MaxRounds)]
    /\ UNCHANGED <<flag, turn, spun>>
    /\ UNCHANGED <<renderVars, blogVars>>

\* lock: Thread.yield() in the loop body
Yield(i) ==
    /\ pc[i] = "yield"
    /\ pc' = [pc EXCEPT ![i] = "readFlag"]
    /\ spun' = [spun EXCEPT ![i] = TRUE]
    /\ UNCHANGED <<flag, turn, acquired>>
    /\ UNCHANGED <<renderVars, blogVars>>

\* unlock: flag[i] = false
Unlock(i) ==
    /\ pc[i] = "cs"
    /\ flag' = [flag EXCEPT ![i] = FALSE]
    /\ pc' = [pc EXCEPT ![i] = "idle"]
    /\ UNCHANGED <<turn, acquired, spun>>
    /\ UNCHANGED <<renderVars, blogVars>>

---------------------------------------------------------------------------
(* Consensus: one object, each thread calls decide once *)

\* the Java null reference
JavaNull == "null"

Deciders == 1 .. NumDeciders

\* the values a thread may pass to decide(Object proposed)
Proposals == {"Alice", "Bob", JavaNull}

\* where a decide that retried its compareAndSet would go on
AfterFailedCas_Retry == "cas"

\* where decide goes on when its compareAndSet returned false: the else branch
AfterFailedCas == "get"

\* a thread enters decide(v)
Decide(t, v) ==
    /\ decidePc[t] = "idle"
    /\ decidePc' = [decidePc EXCEPT ![t] = "cas"]
    /\ proposed' = [proposed EXCEPT ![t] = v]
    /\ UNCHANGED <<decision, decided, casSucceeded, decideSteps, halted>>
    /\ UNCHANGED ConsensusFrame

\* decide: if (decision.compareAndSet(null, proposed)) return proposed;
DecideCompareAndSet(t) ==
    /\ decidePc[t] = "cas"
    /\ t \notin halted
    /\ IF decision = JavaNull
       THEN /\ decision' = proposed[t]
            /\ casSucceeded' = casSucceeded \cup {t}
            /\ decided' = [decided EXCEPT ![t] = proposed[t]]
            /\ decidePc' = [decidePc EXCEPT ![t] = "done"]
       ELSE /\ decidePc' = [decidePc EXCEPT ![t] = AfterFailedCas]
            /\ UNCHANGED <<decision, casSucceeded, decided>>
    /\ decideSteps' = [decideSteps EXCEPT ![t] = Bump(@, 3)]
    /\ UNCHANGED <<proposed, halted>>
    /\ UNCHANGED ConsensusFrame

\* decide: else return decision.get();
DecideGet(t) ==
    /\ decidePc[t] = "get"
    /\ t \notin halted
    /\ decided' = [decided EXCEPT ![t] = decision]
    /\ decidePc' = [decidePc EXCEPT ![t] = "done"]
    /\ decideSteps' = [decideSteps EXCEPT ![t] = Bump(@, 3)]
    /\ UNCHANGED <<decision, proposed, casSucceeded, halted>>
    /\ UNCHANGED ConsensusFrame

\* a thread stops for good inside its decide call
Halt(t) ==
    /\ decidePc[t] \in {"cas", "get"}
    /\ t \notin halted
    /\ halted' = halted \cup {t}
    /\ UNCHANGED <<decision, decidePc, proposed, decided, casSucceeded,
                   decideSteps>>
    /\ UNCHANGED ConsensusFrame

---------------------------------------------------------------------------
(* UniversalQueue and the threads that call enqueue and dequeue *)

QueueThreads == 1 .. NumQueueThreads

Items == {5, 7}

\* what Queue.poll() returns on an empty queue: null
NoItem == 0

\* an Operation object: id is its identity (each `new` makes another one)
Op(id, kind, item) == [id |-> id, kind |-> kind, item |-> item]

\* the null Operation reference
NullOp == Op(0, "null", NoItem)

\* op.apply(state): EnqueueOp adds its item, DequeueOp polls
Apply(op, st) ==
    IF op.kind = "enqueue" THEN Append(st, op.item)
    ELSE IF st = <<>> THEN st ELSE Tail(st)

\* the log iterator of replayLog: its cursor and the size it expects
Iterator(cursor, size) == [cursor |-> cursor, size |-> size]

\* Operation op = new EnqueueOp(item); or new DequeueOp();
Invoke(t, kind, item) ==
    /\ qpc[t] = "idle"
    /\ t \notin stopped
    /\ invoked < MaxQueueCalls
    /\ invoked' = invoked + 1
    /\ local' = [local EXCEPT ![t].op = Op(invoked + 1, kind, item)]
    /\ qpc' = [qpc EXCEPT ![t] = "cas"]
    /\ UNCHANGED <<consensus, log, state, monitor, history, stopped>>
    /\ UNCHANGED QueueFrame

\* consensus.decide(op): decision.compareAndSet(null, proposed)
QueueDecideCompareAndSet(t) ==
    /\ qpc[t] = "cas"
    /\ t \notin stopped
    /\ IF consensus = NullOp
       THEN /\ consensus' = local[t].op
            /\ local' = [local EXCEPT ![t].winner = local[t].op]
            /\ qpc' = [qpc EXCEPT ![t] = "enter"]
       ELSE /\ qpc' = [qpc EXCEPT ![t] = "get"]
            /\ UNCHANGED <<consensus, local>>
    /\ UNCHANGED <<log, state, monitor, history, invoked, stopped>>
    /\ UNCHANGED QueueFrame

\* consensus.decide(op): return decision.get()
QueueDecideGet(t) ==
    /\ qpc[t] = "get"
    /\ t \notin stopped
    /\ local' = [local EXCEPT ![t].winner = consensus]
    /\ qpc' = [qpc EXCEPT ![t] = "enter"]
    /\ UNCHANGED <<consensus, log, state, monitor, history, invoked, stopped>>
    /\ UNCHANGED QueueFrame

\* synchronized(log) {  : waits until no thread is inside
MonitorEnter(t) ==
    /\ qpc[t] = "enter"
    /\ t \notin stopped
    /\ monitor = 0
    /\ monitor' = t
    /\ qpc' = [qpc EXCEPT ![t] = "add"]
    /\ UNCHANGED <<consensus, log, state, local, history, invoked, stopped>>
    /\ UNCHANGED QueueFrame

\* log.add(winner);
LogAdd(t) ==
    /\ qpc[t] = "add"
    /\ t \notin stopped
    /\ log' = Append(log, local[t].winner)
    /\ qpc' = [qpc EXCEPT ![t] = "exit"]
    /\ UNCHANGED <<consensus, state, monitor, local, history, invoked, stopped>>
    /\ UNCHANGED QueueFrame

\* }  : the end of the synchronized block
MonitorExit(t) ==
    /\ qpc[t] = "exit"
    /\ t \notin stopped
    /\ monitor' = 0
    /\ qpc' = [qpc EXCEPT ![t] = "clear"]
    /\ UNCHANGED <<consensus, log, state, local, history, invoked, stopped>>
    /\ UNCHANGED QueueFrame

\* a call returns (threw = FALSE) or ends with an exception (threw = TRUE)
Completed(t, threw, result) ==
    [thread |-> t, op |-> local[t].op, threw |-> threw, result |-> result]

\* replayLog: state.clear(); and the iterator of for (Operation op : log)
ReplayClear(t) ==
    /\ qpc[t] = "clear"
    /\ t \notin stopped
    /\ state' = <<>>
    /\ local' = [local EXCEPT ![t].it = Iterator(0, Len(log))]
    /\ qpc' = [qpc EXCEPT ![t] = "replay"]
    /\ UNCHANGED <<consensus, log, monitor, history, invoked, stopped>>
    /\ UNCHANGED QueueFrame

\* replayLog: op.apply(state); for the next entry of the log
ReplayApply(t) ==
    /\ qpc[t] = "replay"
    /\ t \notin stopped
    /\ local[t].it.cursor < Len(log)
    /\ state' = Apply(log[local[t].it.cursor + 1], state)
    /\ local' = [local EXCEPT ![t].it.cursor = @ + 1]
    /\ UNCHANGED <<consensus, log, monitor, qpc, history, invoked, stopped>>
    /\ UNCHANGED QueueFrame

\* replayLog: the iterator finds the log changed by another thread's add and
\* throws ConcurrentModificationException (the unsynchronized read may also
\* miss the change: ReplayApply stays enabled)
ReplayThrow(t) ==
    /\ qpc[t] = "replay"
    /\ t \notin stopped
    /\ local[t].it.cursor < Len(log)
    /\ local[t].it.size # Len(log)
    /\ history' = Append(history, Completed(t, TRUE, NoItem))
    /\ qpc' = [qpc EXCEPT ![t] = "idle"]
    /\ UNCHANGED <<consensus, log, state, monitor, local, invoked, stopped>>
    /\ UNCHANGED QueueFrame

\* replayLog returns: enqueue returns too, dequeue goes on to state.poll()
ReplayEnd(t) ==
    /\ qpc[t] = "replay"
    /\ t \notin stopped
    /\ local[t].it.cursor = Len(log)
    /\ IF local[t].op.kind = "enqueue"
       THEN /\ history' = Append(history, Completed(t, FALSE, NoItem))
            /\ qpc' = [qpc EXCEPT ![t] = "idle"]
       ELSE /\ qpc' = [qpc EXCEPT ![t] = "poll"]
            /\ UNCHANGED history
    /\ UNCHANGED <<consensus, log, state, monitor, local, invoked, stopped>>
    /\ UNCHANGED QueueFrame

\* dequeue: return state.poll();
Poll(t) ==
    /\ qpc[t] = "poll"
    /\ t \notin stopped
    /\ IF state = <<>>
       THEN /\ history' = Append(history, Completed(t, FALSE, NoItem))
            /\ UNCHANGED state
       ELSE /\ history' = Append(history, Completed(t, FALSE, Head(state)))
            /\ state' = Tail(state)
    /\ qpc' = [qpc EXCEPT ![t] = "idle"]
    /\ UNCHANGED <<consensus, log, monitor, local, invoked, stopped>>
    /\ UNCHANGED QueueFrame

\* a thread stops for good somewhere inside its call
Stop(t) ==
    /\ qpc[t] # "idle"
    /\ t \notin stopped
    /\ Cardinality(stopped) + 1 < NumQueueThreads
    /\ stopped' = stopped \cup {t}
    /\ UNCHANGED <<consensus, log, state, monitor, qpc, local, history, invoked>>
    /\ UNCHANGED QueueFrame

---------------------------------------------------------------------------
(* LockFreeCounter and the threads that call increment and decrement *)

CounterThreads == 1 .. NumCounterThreads

\* Integer.MAX_VALUE and Integer.MIN_VALUE
IntMax == 2147483647
IntMin == (0 - IntMax) - 1

\* Java int arithmetic: current + 1 and current - 1 wrap around at 32 bits
IntAdd(x, d) ==
    IF d = 1 /\ x = IntMax THEN IntMin
    ELSE IF d = -1 /\ x = IntMin THEN IntMax
    ELSE x + d

\* the count of steps without a returned call is kept up to this value
FruitlessCap == 2 * NumCounterThreads + 1

\* value.compareAndSet(expected, ...) that succeeds whatever the value is
CasSucceeds_Always(expected) == TRUE

\* value.compareAndSet(expected, ...) that fails whatever the value is
CasSucceeds_Never(expected) == FALSE

\* value.compareAndSet(expected, ...) returns true iff value == expected
CasSucceeds(expected) == value = expected

\* a thread enters increment() (d = 1) or decrement() (d = -1)
CounterCall(t, d) ==
    /\ cpc[t] = "idle"
    /\ started < MaxCounterCalls
    /\ started' = started + 1
    /\ delta' = [delta EXCEPT ![t] = d]
    /\ cpc' = [cpc EXCEPT ![t] = "get"]
    /\ fruitless' = Bump(fruitless, FruitlessCap)
    /\ UNCHANGED <<value, current, increments, decrements, changedSinceGet,
                   casFailures>>
    /\ UNCHANGED CounterFrame

\* current = value.get();
CounterGet(t) ==
    /\ cpc[t] = "get"
    /\ current' = [current EXCEPT ![t] = value]
    /\ changedSinceGet' = [changedSinceGet EXCEPT ![t] = FALSE]
    /\ cpc' = [cpc EXCEPT ![t] = "cas"]
    /\ fruitless' = Bump(fruitless, FruitlessCap)
    /\ UNCHANGED <<value, delta, increments, decrements, started, casFailures>>
    /\ UNCHANGED CounterFrame

\* while (!value.compareAndSet(current, current + 1)) and the same with
\* current - 1: on true the call returns, on false the loop runs again
CounterCompareAndSet(t) ==
    /\ cpc[t] = "cas"
    /\ IF CasSucceeds(current[t])
       THEN /\ value' = IntAdd(current[t], delta[t])
            /\ cpc' = [cpc EXCEPT ![t] = "idle"]
            /\ increments' = increments + (IF delta[t] = 1 THEN 1 ELSE 0)
            /\ decrements' = decrements + (IF delta[t] = 1 THEN 0 ELSE 1)
            /\ changedSinceGet' =
                  [u \in CounterThreads |-> u # t \/ changedSinceGet[u]]
            /\ fruitless' = 0
            /\ UNCHANGED casFailures
       ELSE /\ cpc' = [cpc EXCEPT ![t] = "get"]
            /\ casFailures' = casFailures + 1
            /\ fruitless' = Bump(fruitless, FruitlessCap)
            /\ UNCHANGED <<value, increments, decrements, changedSinceGet>>
    /\ UNCHANGED <<delta, current, started>>
    /\ UNCHANGED CounterFrame

---------------------------------------------------------------------------
(* CASLock and the threads that call lock, tryLock and unlock *)

LockThreads == 1 .. NumLockThreads

\* the count of steps without a returned call is kept up to this value
WaitedCap == 2 * NumLockThreads + 1

\* state.compareAndSet(0, 1) that succeeds whatever the state is
LockCasSucceeds_Always == TRUE

\* state.compareAndSet(0, 1) that fails whatever the state is
LockCasSucceeds_Never == FALSE

\* state.compareAndSet(0, 1) returns true iff state == 0
LockCasSucceeds == lockState = 0

\* a thread enters lock()
CASLockCall(t) ==
    /\ lpc[t] = "idle"
    /\ lpc' = [lpc EXCEPT ![t] = "lock"]
    /\ waited' = Bump(waited, WaitedCap)
    /\ UNCHANGED <<lockState, holders, tried>>
    /\ UNCHANGED LockFrame

\* lock: while (!state.compareAndSet(0, 1)) {}  : on true lock() returns,
\* on false the loop runs again
CASLockCompareAndSet(t) ==
    /\ lpc[t] = "lock"
    /\ IF LockCasSucceeds
       THEN /\ lockState' = 1
            /\ holders' = holders \cup {t}
            /\ lpc' = [lpc EXCEPT ![t] = "idle"]
            /\ waited' = 0
       ELSE /\ waited' = Bump(waited, WaitedCap)
            /\ UNCHANGED <<lockState, holders, lpc>>
    /\ UNCHANGED tried
    /\ UNCHANGED LockFrame

\* tryLock: return state.compareAndSet(0, 1);
CASTryLock(t) ==
    /\ lpc[t] = "idle"
    /\ IF LockCasSucceeds
       THEN /\ lockState' = 1
            /\ holders' = holders \cup {t}
            /\ tried' = [tried EXCEPT ![t] = "true"]
       ELSE /\ tried' = [tried EXCEPT ![t] = "false"]
            /\ UNCHANGED <<lockState, holders>>
    /\ waited' = 0
    /\ UNCHANGED lpc
    /\ UNCHANGED LockFrame

\* unlock: state.set(0);  called by the lock holder only
CASUnlock(t) ==
    /\ lpc[t] = "idle"
    /\ t \in holders
    /\ lockState' = 0
    /\ holders' = holders \ {t}
    /\ waited' = 0
    /\ UNCHANGED <<lpc, tried>>
    /\ UNCHANGED LockFrame

---------------------------------------------------------------------------
(* The blog: the files under blog/ and the posts the site generator loads *)

\* the files under blog/: the name, the slug and the date character by
\* character, and the rest of the front matter
BlogFiles == <<
    [ name |->
          <<"2", "0", "2", "6", "-", "0", "2", "-", "0", "3", "-", "f", "r",
            "o", "m", "-", "m", "u", "t", "u", "a", "l", "-", "e", "x", "c",
            "l", "u", "s", "i", "o", "n", "-", "t", "o", "-", "u", "n", "i",
            "v", "e", "r", "s", "a", "l", "i", "t", "y", ".", "m", "d">>,
      frontMatter |->
          [ slug |->
                <<"c", "a", "s", "-", "u", "n", "i", "v", "e", "r", "s", "a",
                  "l", "-", "p", "r", "i", "m", "i", "t", "i", "v", "e">>,
            title |-> "The Universal Primitive - How CAS Became the Foundation of Concurrent Programming",
            authors |-> <<"Arun Lakshman R">>,
            tags |-> <<"concurrency", "synchronization", "cas", "distributed-systems", "algorithms">>,
            date |-> <<"2", "0", "2", "6", "-", "0", "2", "-", "0", "3">> ] ],
    [ name |->
          <<"2", "0", "2", "6", "-", "0", "2", "-", "1", "5", "-", "f", "l",
            "i", "n", "k", "-", "r", "p", "c", "-", "a", "r", "c", "h", "i",
            "t", "e", "c", "t", "u", "r", "e", "-", "a", "k", "k", "a", "-",
            "p", "e", "k", "k", "o", ".", "m", "d">>,
      frontMatter |->
          [ slug |->
                <<"f", "l", "i", "n", "k", "-", "r", "p", "c", "-", "a", "r",
                  "c", "h", "i", "t", "e", "c", "t", "u", "r", "e", "-", "p",
                  "e", "k", "k", "o">>,
            title |-> "Inside Flink's Control Plane: How Apache Pekko Powers the RPC Layer",
            authors |-> <<"Arun">>,
            tags |-> <<"flink", "akka", "pekko", "distributed-systems", "concurrency", "rpc">>,
            date |-> <<"2", "0", "2", "6", "-", "0", "2", "-", "1", "5">> ] ] >>

Digits == {"0", "1", "2", "3", "4", "5", "6", "7", "8", "9"}

\* text is YYYY-MM-DD
IsDate(text) ==
    /\ Len(text) = 10
    /\ \A i \in {1, 2, 3, 4, 6, 7, 9, 10} : text[i] \in Digits
    /\ text[5] = "-" /\ text[8] = "-"

\* the file name read as YYYY-MM-DD-slug.md: ok is FALSE when it does not match
ParseBlogFileName(name) ==
    LET n == Len(name)
        ok == /\ n > 14
              /\ IsDate(SubSeq(name, 1, 10))
              /\ name[11] = "-"
              /\ SubSeq(name, n - 2, n) = <<".", "m", "d">>
    IN  [ ok |-> ok,
          date |-> IF ok THEN SubSeq(name, 1, 10) ELSE <<>>,
          text |-> IF ok THEN SubSeq(name, 12, n - 3) ELSE <<>> ]

\* a post's URL slug taken from the file name, whatever the front matter says
PostSlug_FromFileName(file) == ParseBlogFileName(file.name).text

\* a post's URL slug: the front matter's slug, else the text of the file name
PostSlug(file) ==
    IF "slug" \in DOMAIN file.frontMatter
    THEN file.frontMatter.slug
    ELSE ParseBlogFileName(file.name).text

\* the site generator reads one file under blog/
LoadPost(i) ==
    /\ \A p \in posts : p.file # i
    /\ posts' = posts \cup
          {[ file |-> i,
             named |-> ParseBlogFileName(BlogFiles[i].name).ok,
             keys |-> DOMAIN BlogFiles[i].frontMatter,
             date |-> ParseBlogFileName(BlogFiles[i].name).date,
             slug |-> PostSlug(BlogFiles[i]) ]}
    /\ UNCHANGED <<renderVars, petersonVars>>
    /\ UNCHANGED <<consensusVars, queueVars, counterVars, lockVars>>

---------------------------------------------------------------------------
(* Specifications *)

Init ==
    /\ FeatureList = FeatureListLiteral
    /\ socialLinks = socialLinksLiteral
    /\ badgeVariants = BadgeVariantsConfig
    /\ last = Idle
    /\ ref = Idle
    /\ pathname \in Pathnames
    /\ flag = [i \in Threads |-> FALSE]
    /\ turn = 0
    /\ pc = [i \in Threads |-> "idle"]
    /\ acquired = [i \in Threads |-> 0]
    /\ spun = [i \in Threads |-> FALSE]
    /\ decision = JavaNull
    /\ decidePc = [t \in Deciders |-> "idle"]
    /\ proposed = [t \in Deciders |-> JavaNull]
    /\ decided = [t \in Deciders |-> JavaNull]
    /\ casSucceeded = {}
    /\ decideSteps = [t \in Deciders |-> 0]
    /\ halted = {}
    /\ consensus = NullOp
    /\ log = <<>>
    /\ state = <<>>
    /\ monitor = 0
    /\ qpc = [t \in QueueThreads |-> "idle"]
    /\ local = [t \in QueueThreads |->
                   [op |-> NullOp, winner |-> NullOp, it |-> Iterator(0, 0)]]
    /\ history = <<>>
    /\ invoked = 0
    /\ stopped = {}
    /\ value = 0
    /\ cpc = [t \in CounterThreads |-> "idle"]
    /\ delta = [t \in CounterThreads |-> 1]
    /\ current = [t \in CounterThreads |-> 0]
    /\ increments = 0
    /\ decrements = 0
    /\ started = 0
    /\ changedSinceGet = [t \in CounterThreads |-> FALSE]
    /\ casFailures = 0
    /\ fruitless = 0
    /\ lockState = 0
    /\ lpc = [t \in LockThreads |-> "idle"]
    /\ holders = {}
    /\ tried = [t \in LockThreads |-> "none"]
    /\ waited = 0
    /\ posts = {}

Render(full) ==
    \/ /\ IsIdle(last)
       /\ \E props \in StatusIndicatorProps(full) : RenderStatusIndicator(props)
    \/ /\ IsIdle(last)
       /\ \E props \in BadgeProps(full) : RenderBadge(props)
    \/ /\ IsIdle(last)
       /\ \E props \in BadgeProps(full) : RenderTechBadge(props)
    \/ /\ IsIdle(last)
       /\ \E props \in TerminalWindowProps(full) : RenderTerminalWindow(props)
    \/ /\ IsIdle(last)
       /\ \E props \in FeatureProps : RenderFeature(props)
    \/ RenderHomepageFeatures
    \/ RenderAbout
    \/ /\ IsIdle(last)
       /\ \E props \in SidebarProps(full) : RenderBlogSidebarMobile(props)

\* every component and cn, over the full input sets
Next ==
    \/ Render(TRUE)
    \/ /\ IsIdle(last)
       /\ \E a \in InputValues : CallCn(<<a>>)
    \/ /\ IsIdle(last)
       /\ \E a, b \in InputValues : CallCn(<<a, b>>)
    \/ Commit
    \/ \E path \in Pathnames : Navigate(path)

Spec == Init /\ [][Next]_vars

\* every component over sample inputs, with an earlier call kept
NextHistory ==
    \/ Render(FALSE)
    \/ Commit
    \/ CommitAndKeep
    \/ \E path \in Pathnames : Navigate(path)

SpecHistory == Init /\ [][NextHistory]_vars

\* the two threads of the PetersonsLock client
NextPeterson ==
    \E i \in Threads :
        \/ SetFlag(i)
        \/ SetTurn(i)
        \/ ReadFlag(i)
        \/ ReadTurn(i)
        \/ Yield(i)
        \/ Unlock(i)

SpecPeterson == Init /\ [][NextPeterson]_vars

\* the steps of a thread that has called lock: the rest of lock, and unlock
Running(i) ==
    \/ SetTurn(i)
    \/ ReadFlag(i)
    \/ ReadTurn(i)
    \/ Yield(i)
    \/ Unlock(i)

\* both threads keep taking steps, and a thread in the critical section
\* calls its unlock; no thread has to call lock again
SpecPetersonFair ==
    SpecPeterson /\ \A i \in Threads : WF_vars(Running(i))

\* the threads that call decide on the one Consensus object
NextConsensus ==
    \E t \in Deciders :
        \/ \E v \in Proposals : Decide(t, v)
        \/ DecideCompareAndSet(t)
        \/ DecideGet(t)

SpecConsensus == Init /\ [][NextConsensus]_vars

\* the same threads, any of which may stop for good inside decide
NextConsensusHalt ==
    \/ NextConsensus
    \/ \E t \in Deciders : Halt(t)

SpecConsensusHalt == Init /\ [][NextConsensusHalt]_vars

\* the threads that call enqueue and dequeue on the one UniversalQueue
NextQueue ==
    \E t \in QueueThreads :
        \/ \E item \in Items : Invoke(t, "enqueue", item)
        \/ Invoke(t, "dequeue", NoItem)
        \/ QueueDecideCompareAndSet(t)
        \/ QueueDecideGet(t)
        \/ MonitorEnter(t)
        \/ LogAdd(t)
        \/ MonitorExit(t)
        \/ ReplayClear(t)
        \/ ReplayApply(t)
        \/ ReplayThrow(t)
        \/ ReplayEnd(t)
        \/ Poll(t)

SpecQueue == Init /\ [][NextQueue]_vars

\* the same threads, any of which may stop for good inside a call
NextQueueStop ==
    \/ NextQueue
    \/ \E t \in QueueThreads : Stop(t)

SpecQueueStop == Init /\ [][NextQueueStop]_vars

\* the threads that call increment and decrement on the one LockFreeCounter
NextCounter ==
    \E t \in CounterThreads :
        \/ CounterCall(t, 1)
        \/ CounterCall(t, -1)
        \/ CounterGet(t)
        \/ CounterCompareAndSet(t)

SpecCounter == Init /\ [][NextCounter]_vars

\* the threads that call lock, tryLock and unlock on the one CASLock
NextCASLock ==
    \E t \in LockThreads :
        \/ CASLockCall(t)
        \/ CASLockCompareAndSet(t)
        \/ CASTryLock(t)
        \/ CASUnlock(t)

SpecCASLock == Init /\ [][NextCASLock]_vars

\* the site: the generator loads the posts, the components render
NextSite ==
    \/ NextHistory
    \/ \E i \in DOMAIN BlogFiles : LoadPost(i)

SpecSite == Init /\ [][NextSite]_vars

---------------------------------------------------------------------------
(* Claims *)

Range(seq) == {seq[i] : i \in DOMAIN seq}

RecognizedStatuses ==
    {Str("online"), Str("offline"), Str("warning"), Str("error")}

\* the dot class and the label classes the documentation gives each status
ExpectedDot(status) ==
    CASE status = Str("online") -> "bg-green-500"
      [] status = Str("offline") -> "bg-gray-400"
      [] status = Str("warning") -> "bg-yellow-500"
      [] status = Str("error") -> "bg-red-500"

ExpectedText(status) ==
    CASE status = Str("online") -> <<"text-green-600", "dark:text-green-400">>
      [] status = Str("offline") -> <<"text-gray-500", "dark:text-gray-400">>
      [] status = Str("warning") -> <<"text-yellow-600", "dark:text-yellow-400">>
      [] status = Str("error") -> <<"text-red-600", "dark:text-red-400">>

\* class c, placed later, overrides class b
Overrides(c, b) ==
    /\ ClassGroupId(c) # ""
    /\ ClassGroupId(b) # ""
    /\ ModifierId(c) = ModifierId(b)
    /\ ClassGroupId(b) \in
          {ClassGroupId(c)} \cup ConflictingClassGroups(ClassGroupId(c))

\* the classes of seq at the indexes in K, in order
RECURSIVE Pick(_, _, _)
Pick(seq, K, i) ==
    IF i > Len(seq) THEN <<>>
    ELSE (IF i \in K THEN <<seq[i]>> ELSE <<>>) \o Pick(seq, K, i + 1)

\* C1 (as claimed): a StatusIndicator given a status other than "online",
\* "offline", "warning", "error" (any other string, the empty string,
\* "constructor", "toString", null) renders exactly what status "online"
\* renders.
C1_EveryOtherStatusRendersAsOnline ==
    (last.comp = "StatusIndicator"
        /\ last.props.status \notin RecognizedStatuses)
    => last.out = StatusIndicator([last.props EXCEPT !.status = Str("online")])

\* C2: for each recognized status the dot gets exactly that status's colour
\* class and the label exactly that status's text classes, and no class of
\* another status.
C2_StatusColorMap ==
    (last.comp = "StatusIndicator"
        /\ last.props.status \in RecognizedStatuses)
    => LET s == last.props.status
           dot == last.out.children[1]
       IN /\ dot.tag = "div"
          /\ dot.className = <<"w-2", "h-2", "rounded-full", ExpectedDot(s)>>
          /\ \A t \in RecognizedStatuses \ {s} :
                ExpectedDot(t) \notin Range(dot.className)
          /\ Truthy(last.props.label) =>
                /\ Len(last.out.children) = 2
                /\ last.out.children[2].className
                      = <<"text-sm">> \o ExpectedText(s)
                /\ \A t \in RecognizedStatuses \ {s} :
                      Range(ExpectedText(t))
                         \cap Range(last.out.children[2].className) = {}

C2_Witness ==
    /\ last.comp = "StatusIndicator"
    /\ last.props.status = Str("warning")
    /\ last.props.label = Str("ACTIVE")
    /\ last.out.children[1].className[4] = "bg-yellow-500"

\* C3: cn returns the input classes, in their order, without those that a
\* later class overrides: of two classes of one utility group (and the
\* same modifiers) only the later is kept, and a class that no later class
\* overrides is kept.
C3_CnConflictResolution ==
    last.comp = "cn"
    => LET classes == clsx(last.props)
           n == Len(classes)
       IN \E K \in SUBSET (1..n) :
             /\ last.out = Pick(classes, K, 1)
             /\ \A i \in 1..n, j \in 1..n :
                   (i < j /\ ClassGroupId(classes[i]) # ""
                      /\ ClassGroupId(classes[i]) = ClassGroupId(classes[j])
                      /\ ModifierId(classes[i]) = ModifierId(classes[j]))
                   => i \notin K
             /\ \A i \in 1..n :
                   (\A j \in (i + 1)..n : ~Overrides(classes[j], classes[i]))
                   => i \in K

C3_Witness ==
    /\ last.comp = "cn"
    /\ last.props = <<Cls(<<"px-4", "custom-card">>), Cls(<<"px-4", "custom-card">>)>>
    /\ last.out = <<"custom-card", "px-4", "custom-card">>

\* the classes a component puts before the caller's className
OwnClasses(call) ==
    CASE call.comp = "StatusIndicator" -> <<"flex", "items-center", "gap-2">>
      [] call.comp = "TerminalWindow"
           -> <<"rounded-lg", "overflow-hidden", "border", "shadow-sm">>
      [] call.comp = "Badge" -> cva(badgeVariants, call.props.variant)

\* C4: in StatusIndicator, TerminalWindow and Badge the rendered class
\* string is the component's own classes that no class of the caller
\* overrides, followed by the caller's classes: an own class is present
\* exactly if the caller overrides it nowhere, and every caller class that
\* no later caller class overrides is present, after the own classes.
C4_CallerOverridesOwnClasses ==
    last.comp \in {"StatusIndicator", "TerminalWindow", "Badge"}
    => LET own == OwnClasses(last)
           caller == clsx(<<last.props.className>>)
           keptOwn == SelectSeq(own, LAMBDA b :
                         \A k \in 1..Len(caller) : ~Overrides(caller[k], b))
           out == last.out.className
       IN /\ Len(out) >= Len(keptOwn)
          /\ SubSeq(out, 1, Len(keptOwn)) = keptOwn
          /\ \A k \in 1..Len(caller) :
                (\A m \in (k + 1)..Len(caller) : ~Overrides(caller[m], caller[k]))
                => caller[k] \in Range(SubSeq(out, Len(keptOwn) + 1, Len(out)))
          /\ Range(out) \subseteq Range(keptOwn) \cup Range(caller)

C4_Witness ==
    /\ last.comp = "Badge"
    /\ last.props.variant = Str("outline")
    /\ last.props.className = Cls(<<"p-1">>)
    /\ "px-2.5" \notin Range(last.out.className)
    /\ "py-0.5" \notin Range(last.out.className)
    /\ "text-xs" \in Range(last.out.className)
    /\ last.out.className[Len(last.out.className)] = "p-1"

\* C5: with the prop omitted, StatusIndicator renders as status "online",
\* TerminalWindow shows the title "Example" and Badge applies the classes
\* of the "default" variant; each output equals the one obtained by passing
\* the default explicitly.
C5_DefaultProps ==
    /\ (last.comp = "StatusIndicator" /\ last.props.status = Undefined)
       => /\ last.out.children[1].className
                = <<"w-2", "h-2", "rounded-full", "bg-green-500">>
          /\ last.out
                = StatusIndicator([last.props EXCEPT !.status = Str("online")])
    /\ (last.comp = "TerminalWindow" /\ last.props.title = Undefined)
       => /\ last.out.title = Str("Example")
          /\ last.out
                = TerminalWindow([last.props EXCEPT !.title = Str("Example")])
    /\ (last.comp = "Badge" /\ last.props.variant = Undefined)
       => /\ last.props.className = NoClass
                => last.out.className
                      = BadgeBase \o <<"border-transparent", "bg-primary-600",
                                       "text-white", "hover:bg-primary-700">>
          /\ last.out
                = Badge(badgeVariants,
                        [last.props EXCEPT !.variant = Str("default")])

C5_Witness ==
    /\ last.comp = "TerminalWindow"
    /\ last.props.title = Undefined
    /\ last.out.title = Str("Example")

\* C6: the mobile sidebar menu is the list holding the one custom link
\* "About" to "/about", then the divider, then the blog items, which are
\* the sidebar's items that are visible (listed, or the page being read),
\* in their order; no other node holds a link.
C6_SidebarCustomLinkFirst ==
    last.comp = "BlogSidebarMobile"
    => /\ Len(last.out) = 3
       /\ last.out[1].tag = "ul"
       /\ last.out[1].links = <<[to |-> "/about", text |-> "About"]>>
       /\ last.out[1].items = <<>>
       /\ last.out[2] = Node("hr", <<>>, <<>>)
       /\ last.out[3].tag = "BlogSidebarContent"
       /\ last.out[3].links = <<>>
       /\ last.out[3].items
             = SelectSeq(last.props.sidebar.items,
                         LAMBDA item : ~item.unlisted \/ item.permalink = last.at)

C6_Witness ==
    /\ last.comp = "BlogSidebarMobile"
    /\ Len(last.props.sidebar.items) = 2
    /\ \A i \in 1..2 : last.props.sidebar.items[i].unlisted
    /\ last.out[3].items = <<>>
    /\ last.out[1].links[1].to = "/about"

\* C7: HomepageFeatures renders one Feature card per FeatureList entry, in
\* list order, with the entry's icon, title and description and a
\* StatusIndicator of the entry's status labelled "ACTIVE"; every entry has
\* title, icon, description and status, and a recognized status, so the
\* indicator shows that status's own colours.
C7_FeatureGrid ==
    /\ \A i \in 1..Len(FeatureList) :
          /\ DOMAIN FeatureList[i] = {"title", "icon", "description", "status"}
          /\ FeatureList[i].status \in RecognizedStatuses
    /\ last.comp = "HomepageFeatures"
       => /\ Len(last.out) = Len(FeatureList)
          /\ \A i \in 1..Len(FeatureList) :
                LET f == last.out[i].feature
                    e == FeatureList[i]
                IN /\ f.icon = e.icon
                   /\ f.title = e.title
                   /\ f.description = e.description
                   /\ f.indicator.children
                         = <<El("div", <<"w-2", "h-2", "rounded-full",
                                         ExpectedDot(e.status)>>, ""),
                             El("span", <<"text-sm">> \o ExpectedText(e.status),
                                "ACTIVE")>>

C7_Witness ==
    /\ last.comp = "HomepageFeatures"
    /\ Len(last.out) = 3
    /\ last.out[3].feature.title = "Developer Tools"

\* two calls of one component with equal props
SameCall == 
    /\ ~IsIdle(ref)
    /\ ~IsIdle(last)
    /\ ref.comp = last.comp
    /\ ref.props = last.props

\* C8 (as claimed): two renders of a component with equal props produce
\* equal output, whatever was rendered before or in between.
C8_EqualPropsEqualOutput == SameCall => ref.out = last.out

\* C8 (amended): two renders of a component with equal props, and for the
\* mobile blog sidebar at the same router location, produce equal output,
\* whatever was rendered before or in between.
C8_EqualPropsAndLocationEqualOutput ==
    (SameCall /\ (last.comp = "BlogSidebarMobile" => ref.at = last.at))
    => ref.out = last.out

C8_Witness ==
    /\ SameCall
    /\ last.comp = "HomepageFeatures"
    /\ ref.at # last.at
    /\ ref.out = last.out

\* C9: after any sequence of renders the module-level configuration
\* (FeatureList, socialLinks, the badge variant table) equals its literal.
C9_ConfigurationUnchanged ==
    /\ FeatureList = FeatureListLiteral
    /\ socialLinks = socialLinksLiteral
    /\ badgeVariants = BadgeVariantsConfig

C9_Witness ==
    /\ ref.comp = "About"
    /\ last.comp = "HomepageFeatures"
    /\ C9_ConfigurationUnchanged

\* C10: the two threads of the PetersonsLock client are never both in the
\* critical section.
C10_MutualExclusion == ~(pc[0] = "cs" /\ pc[1] = "cs")

C10_Witness ==
    /\ pc[0] = "cs"
    /\ pc[1] = "yield"
    /\ acquired[0] = MaxRounds

\* C11 (as claimed): every decide call on one Consensus object returns the
\* same value, whatever values the threads propose, and that value is the
\* proposal of the single call whose compareAndSet(null, v) succeeded.
C11_Agreement ==
    LET done == {t \in Deciders : decidePc[t] = "done"}
    IN  done # {} =>
            \E w \in Deciders :
                /\ casSucceeded = {w}
                /\ \A t \in done : decided[t] = proposed[w]

\* the threads that have called enqueue or dequeue so far
Invokers ==
    {t \in QueueThreads : qpc[t] # "idle"}
        \cup {history[i].thread : i \in DOMAIN history}

\* a sequential FIFO queue after the first n calls of h
RECURSIVE FifoAfter(_, _)
FifoAfter(h, n) ==
    IF n = 0 THEN <<>>
    ELSE LET q == FifoAfter(h, n - 1)
         IN  IF h[n].op.kind = "enqueue" THEN Append(q, h[n].op.item)
             ELSE IF q = <<>> THEN q ELSE Tail(q)

\* what the n-th call of h returns on a sequential FIFO queue
FifoResult(h, n) ==
    LET q == FifoAfter(h, n - 1)
    IN  IF h[n].op.kind = "dequeue" /\ q # <<>> THEN Head(q) ELSE NoItem

\* C12 (as claimed): when one thread calls enqueue and dequeue one after
\* another, every call returns, and every dequeue returns what a sequential
\* FIFO queue returns for the same sequence of calls.
C12_FifoOrder ==
    Cardinality(Invokers) <= 1 =>
        \A n \in DOMAIN history :
            /\ ~history[n].threw
            /\ history[n].result = FifoResult(history, n)

\* C13 (as claimed): once the calls made so far have all returned, the log
\* holds each of their operations exactly once and nothing else.
C13_LogHoldsEachOperationOnce ==
    ((\A t \in QueueThreads : qpc[t] = "idle")
        /\ (\A n \in DOMAIN history : ~history[n].threw))
    => /\ Len(log) = Len(history)
       /\ \A n \in DOMAIN history :
             Cardinality({i \in DOMAIN log : log[i] = history[n].op}) = 1

\* C14 (as claimed): a running thread is never kept waiting by a thread that
\* has stopped for good: no call waits at synchronized(log) for a monitor
\* whose owner will never leave it.
C14_NeverWaitsForStoppedThread ==
    \A t \in QueueThreads \ stopped :
        qpc[t] = "enter" => monitor \notin stopped

\* C15: the value of the counter is the number of increment calls that have
\* returned minus the number of decrement calls that have returned, as a
\* 32-bit integer (the difference of up to MaxCounterCalls calls is within
\* the range of int): no update is lost and none is applied twice, so get()
\* returns that difference once all the calls have returned.
C15_NoLostUpdate ==
    /\ IntMin <= value /\ value <= IntMax
    /\ value = increments - decrements

\* all the calls have returned, after increments, decrements and a retry
C15_Witness ==
    /\ \A t \in CounterThreads : cpc[t] = "idle"
    /\ started = MaxCounterCalls
    /\ increments >= 2
    /\ decrements >= 1
    /\ casFailures >= 1

\* C16: a compareAndSet of a thread fails only if the compareAndSet of
\* another thread succeeded since that thread's get(), and some call returns
\* within every 2 * NumCounterThreads + 1 consecutive steps of the threads.
C16_LockFree ==
    /\ \A t \in CounterThreads :
          (cpc[t] = "cas" /\ ~CasSucceeds(current[t])) => changedSinceGet[t]
    /\ fruitless <= 2 * NumCounterThreads

\* a thread has failed twice in a row and is about to fail again
C16_Witness ==
    \E t \in CounterThreads :
        /\ cpc[t] = "cas"
        /\ ~CasSucceeds(current[t])
        /\ casFailures >= 2
        /\ increments + decrements >= 3

\* C17: at most one thread holds the CASLock, and the state is 1 exactly
\* while a thread holds it: between a successful compareAndSet(0, 1) and the
\* holder's unlock() no other lock() or tryLock() takes the lock.
C17_CASLockMutualExclusion ==
    /\ Cardinality(holders) <= 1
    /\ lockState = 1 <=> holders # {}
    /\ lockState \in {0, 1}

\* one thread holds the lock while another spins in lock() and a third
\* was refused by tryLock()
C17_Witness ==
    \E h, s, r \in LockThreads :
        /\ holders = {h}
        /\ lpc[s] = "lock" /\ s # h
        /\ tried[r] = "false" /\ r # h
        /\ waited >= 2

\* C18 (as claimed): however the threads are scheduled, some call on the
\* CASLock returns within every 2 * NumLockThreads + 1 consecutive steps of
\* the threads.
C18_SomeCallReturns == waited <= 2 * NumLockThreads

\* C19: every file under blog/ is named YYYY-MM-DD-slug.md, its front
\* matter has title, authors and tags, the date in its name is the date of
\* its front matter, and its URL slug is the slug of its front matter.
C19_BlogPostNaming ==
    \A p \in posts :
        LET frontMatter == BlogFiles[p.file].frontMatter
        IN  /\ p.named
            /\ {"title", "authors", "tags"} \subseteq p.keys
            /\ p.date = frontMatter.date
            /\ p.slug = frontMatter.slug

\* both posts are loaded, and one has a URL slug that is not in its file name
C19_Witness ==
    /\ {p.file : p \in posts} = DOMAIN BlogFiles
    /\ \E p \in posts : p.slug # ParseBlogFileName(BlogFiles[p.file].name).text

\* the classes the documentation lets one input of cn contribute
Contribution(x) ==
    IF x.t = "string" THEN x.v
    ELSE IF x.t = "object"
         THEN LET on == SelectSeq(x.o, LAMBDA e : e.on)
              IN  [i \in DOMAIN on |-> on[i].k]
         ELSE <<>>

RECURSIVE Contributions(_)
Contributions(inputs) ==
    IF inputs = <<>> THEN <<>>
    ELSE Contribution(Head(inputs)) \o Contributions(Tail(inputs))

\* C20: cn merges what its inputs contribute: undefined, null, false and
\* the empty string contribute nothing, an object contributes its keys with
\* a truthy value; cn(base, undefined) is cn(base), and StatusIndicator,
\* TerminalWindow and Badge rendered without className show exactly their
\* own classes.
C20_CnConditionalComposition ==
    /\ last.comp = "cn" =>
          /\ last.out = twMerge(Contributions(last.props))
          /\ last.out =
                cn(SelectSeq(last.props, LAMBDA x :
                      x \notin {NoClass, NullClass, FalseClass, Cls(<<>>)}))
          /\ (Len(last.props) = 2 /\ last.props[2] = NoClass)
                => last.out = cn(<<last.props[1]>>)
    /\ (/\ last.comp \in {"StatusIndicator", "TerminalWindow", "Badge"}
        /\ last.props.className = NoClass)
          => last.out.className = OwnClasses(last)

\* cn of an object with one truthy and one falsy key, and undefined
C20_Witness ==
    /\ last.comp = "cn"
    /\ last.props =
          <<Obj(<<[k |-> "hidden", on |-> TRUE], [k |-> "gap-4", on |-> FALSE]>>),
            NoClass>>
    /\ last.out = <<"hidden">>

\* the names of the variant table
VariantNames == {"default", "secondary", "destructive", "outline"}

\* the variant Badge is given by a TechBadge with this variant prop
PassedVariant(variant) ==
    IF variant = Undefined THEN "secondary" ELSE variant.v

\* C21 (as claimed): Badge called with one of the four variants renders no
\* class of another variant.
C21_NoClassOfAnotherVariant ==
    (/\ last.comp = "Badge"
     /\ last.props.variant \in {Str(v) : v \in VariantNames}
     /\ last.props.className = NoClass)
    => \A w \in VariantNames \ {last.props.variant.v} :
          Range(badgeVariants.variants[w]) \cap Range(last.out.className) = {}

\* C21 (amended): Badge called with one of the four variants and no
\* className renders the base classes followed by exactly that variant's
\* classes, so a class of another variant only where the two variants
\* share it; TechBadge renders the classes of the variant it was given, of
\* "secondary" when it was given none, and of no other.
C21_BadgeVariantSelection ==
    /\ (/\ last.comp = "Badge"
        /\ last.props.variant \in {Str(v) : v \in VariantNames}
        /\ last.props.className = NoClass)
       => /\ last.out.className =
                badgeVariants.base \o badgeVariants.variants[last.props.variant.v]
          /\ \A w \in VariantNames :
                Range(badgeVariants.variants[w]) \cap Range(last.out.className)
                   \subseteq Range(badgeVariants.variants[last.props.variant.v])
    /\ (/\ last.comp = "TechBadge"
        /\ last.props.variant \in {Undefined} \cup {Str(v) : v \in VariantNames}
        /\ last.props.className = NoClass)
       => LET own == badgeVariants.variants[PassedVariant(last.props.variant)]
          IN  /\ Range(last.out.className) =
                    Range(badgeVariants.base) \cup Range(own)
              /\ SubSeq(last.out.className,
                        Len(last.out.className) - Len(own) - 1,
                        Len(last.out.className) - 2) = own

\* a TechBadge without variant renders the classes of "secondary"
C21_Witness ==
    /\ last.comp = "TechBadge"
    /\ last.props.variant = Undefined
    /\ last.props.className = NoClass
    /\ "bg-gray-100" \in Range(last.out.className)

\* C22: a decide call takes one compareAndSet and at most one get of its
\* own and has then returned, and a running thread inside decide can always
\* take its next step, whatever the other threads have done and wherever
\* they have stopped.
C22_DecideWaitFree ==
    \A t \in Deciders :
        /\ decideSteps[t] <= 2
        /\ decidePc[t] = "cas" => decideSteps[t] = 0
        /\ decidePc[t] = "get" => decideSteps[t] = 1
        /\ decidePc[t] = "done" =>
              decideSteps[t] = (IF t \in casSucceeded THEN 1 ELSE 2)
        /\ (decidePc[t] \in {"cas", "get"} /\ t \notin halted)
              => ENABLED (DecideCompareAndSet(t) \/ DecideGet(t))

\* a call returned after a failed compareAndSet and a get while another
\* thread stays stopped inside its own call
C22_Witness ==
    \E t, h \in Deciders :
        /\ decidePc[t] = "done" /\ decideSteps[t] = 2
        /\ h \in halted /\ decidePc[h] = "get"

\* C23: a thread outside lock() can always call tryLock(), which returns in
\* its single step; it returns true exactly if the state was 0, and then
\* the caller is the one holder; when it returns false the state and the
\* holder are what they were.
C23_TryLockReportsOutcome ==
    /\ [](\A t \in LockThreads : lpc[t] = "idle" => ENABLED CASTryLock(t))
    /\ [][\A t \in LockThreads :
            CASTryLock(t) =>
                /\ lpc'[t] = "idle"
                /\ tried'[t] = "true" <=> lockState = 0
                /\ tried'[t] = "true" =>
                      (lockState' = 1 /\ holders = {} /\ holders' = {t})
                /\ tried'[t] = "false" =>
                      (/\ lockState' = lockState
                       /\ holders' = holders
                       /\ Cardinality(holders) = 1)]_vars

\* one thread's tryLock() returned true and it holds the lock, another's
\* returned false
C23_Witness ==
    \E t, u \in LockThreads :
        /\ tried[t] = "true" /\ holders = {t}
        /\ tried[u] = "false"

\* C24: the About page renders one link per socialLinks entry, in list
\* order, with the entry's url as href, its name as title and as text, its
\* icon, target "_blank" and rel "noopener noreferrer"; every entry has
\* name, url and icon, and the names, which are the render keys, differ
\* from one another.
C24_AboutSocialLinks ==
    /\ \A i \in DOMAIN socialLinks :
          {"name", "url", "icon"} \subseteq DOMAIN socialLinks[i]
    /\ \A i, j \in DOMAIN socialLinks :
          i # j => socialLinks[i].name # socialLinks[j].name
    /\ last.comp = "About" =>
          /\ DOMAIN last.out = DOMAIN socialLinks
          /\ \A i \in DOMAIN socialLinks :
                /\ last.out[i].href = socialLinks[i].url
                /\ last.out[i].title = socialLinks[i].name
                /\ last.out[i].text = socialLinks[i].name
                /\ last.out[i].icon = socialLinks[i].icon
                /\ last.out[i].key = socialLinks[i].name
                /\ last.out[i].target = "_blank"
                /\ last.out[i].rel = "noopener noreferrer"
          /\ \A i, j \in DOMAIN last.out :
                i # j => last.out[i].key # last.out[j].key

\* the About page was rendered: three links, GitHub first, X / Twitter last
C24_Witness ==
    /\ last.comp = "About"
    /\ Len(last.out) = 3
    /\ last.out[1].text = "GitHub"
    /\ last.out[3].href = "https://twitter.com/arun_lakshman"

\* C25 (as claimed): StatusIndicator renders the coloured dot exactly once,
\* the label span exactly if label is truthy, and for a falsy label
\* (omitted, null, the empty string, 0) nothing but the dot.
C25_LabelRendering ==
    last.comp = "StatusIndicator" =>
        LET children == last.out.children
            dots == {i \in DOMAIN children : children[i].tag = "div"}
            spans == {i \in DOMAIN children : children[i].tag = "span"}
        IN  /\ dots = {1}
            /\ spans # {} <=> Truthy(last.props.label)
            /\ ~Truthy(last.props.label) => Len(children) = 1

\* how often class c occurs in seq
Count(seq, c) == Cardinality({i \in DOMAIN seq : seq[i] = c})

\* C26: a TechBadge given a variant and no className renders the same set
\* of classes as a Badge called with that variant and no className, with
\* "text-xs" and "transition-colors" once each, and the same children.
C26_TechBadgeAddsNoClass ==
    (/\ last.comp = "TechBadge"
     /\ last.props.variant # Undefined
     /\ last.props.className = NoClass)
    => LET direct == Badge(badgeVariants,
                           [variant |-> last.props.variant,
                            className |-> NoClass,
                            children |-> last.props.children])
       IN  /\ Range(last.out.className) = Range(direct.className)
           /\ Len(last.out.className) = Len(direct.className)
           /\ Count(last.out.className, "text-xs") = 1
           /\ Count(last.out.className, "transition-colors") = 1
           /\ last.out.children = last.props.children

\* a TechBadge with variant "outline" and no className
C26_Witness ==
    /\ last.comp = "TechBadge"
    /\ last.props.variant = Str("outline")
    /\ last.props.className = NoClass
    /\ last.out.children = "Flink"
    /\ last.out.className[Len(last.out.className)] = "transition-colors"

\* C27 (as claimed): a Badge given a variant that is not a key of the
\* variant table renders what a Badge with variant "default" renders.
C27_UnrecognizedVariantFallsBack ==
    (/\ last.comp = "Badge"
     /\ last.props.variant \notin {Str(v) : v \in VariantNames})
    => last.out.className =
          cn(<<Cls(badgeVariants.base \o badgeVariants.variants["default"]),
               last.props.className>>)

\* C27 (amended): a Badge whose variant is omitted or the empty string
\* renders the classes of the "default" variant; a Badge whose variant is
\* null or a name the variant table lacks renders the base classes and no
\* variant's classes.
C27_DefaultOnlyWhenOmitted ==
    (/\ last.comp = "Badge"
     /\ last.props.variant \notin {Str(v) : v \in VariantNames})
    => last.out.className =
          IF last.props.variant \in {Undefined, Str("")}
          THEN cn(<<Cls(badgeVariants.base
                          \o badgeVariants.variants["default"]),
                    last.props.className>>)
          ELSE cn(<<Cls(badgeVariants.base), last.props.className>>)

\* a Badge with the unknown variant "ghost" and no className renders the
\* base classes alone
C27_Witness ==
    /\ last.comp = "Badge"
    /\ last.props.variant = Str("ghost")
    /\ last.props.className = NoClass
    /\ last.out.className = badgeVariants.base


---------------------------------------------------------------------------
(* tailwind.config.js *)

\* theme.extend: the keys of each scale the configuration extends
ThemeExtend ==
    [colors |->
        [primary |-> {"50", "100", "200", "300", "400", "500", "600", "700",
                      "800", "900"},
         surface |-> {"light", "muted", "dark", "darker"},
         content |-> {"primary", "secondary", "muted", "inverse"}],
     fontFamily |-> {"mono", "sans", "serif"},
     boxShadow |-> {"subtle", "card", "elevated"}]

\* a class that names no token outside Tailwind's default theme
NoToken == [scale |-> "none", name |-> "", key |-> ""]

\* the custom design token a component's class refers to: the utility's
\* scale, the token's name and, for a colour, its shade
ThemeToken(c) ==
    CASE c = "focus:ring-primary-500"
             -> [scale |-> "colors", name |-> "primary", key |-> "500"]
      [] c = "bg-primary-600"
             -> [scale |-> "colors", name |-> "primary", key |-> "600"]
      [] c = "hover:bg-primary-700"
             -> [scale |-> "colors", name |-> "primary", key |-> "700"]
      [] c = "hover:shadow-glow-green"
             -> [scale |-> "boxShadow", name |-> "glow-green", key |-> ""]
      [] OTHER -> NoToken

\* the token is a key of the scale in theme.extend
InThemeExtend(token) ==
    CASE token.scale = "colors"
             -> /\ token.name \in DOMAIN ThemeExtend.colors
                /\ token.key \in ThemeExtend.colors[token.name]
      [] token.scale = "boxShadow" -> token.name \in ThemeExtend.boxShadow
      [] OTHER -> FALSE

\* every custom token the classes refer to is defined
TokensDefined(classes) ==
    \A i \in DOMAIN classes :
        ThemeToken(classes[i]) # NoToken => InThemeExtend(ThemeToken(classes[i]))

\* C28 (Badge's half): the custom tokens in a rendered Badge's classes, the
\* primary-500, primary-600 and primary-700 colours, are keys of
\* colors.primary in theme.extend.
C28_BadgeTokensDefined ==
    last.comp \in {"Badge", "TechBadge"} => TokensDefined(last.out.className)

\* a default Badge, whose classes name all three primary shades
C28_BadgeWitness ==
    /\ last.comp = "Badge"
    /\ {"focus:ring-primary-500", "bg-primary-600", "hover:bg-primary-700"}
          \subseteq Range(last.out.className)

\* C28: every custom design token that a rendered component's class names
\* refer to is defined in theme.extend of tailwind.config.js: the primary
\* shades of Badge in colors.primary and the glow-green shadow of the
\* Feature card in boxShadow.
C28_ThemeTokensDefined ==
    /\ C28_BadgeTokensDefined
    /\ last.comp = "Feature" => TokensDefined(last.out.card)
    /\ last.comp = "HomepageFeatures"
          => \A i \in DOMAIN last.out : TokensDefined(last.out[i].feature.card)

\* thread i has started lock0() or lock1() and not returned from it
Locking(i) == pc[i] \in {"setTurn", "readFlag", "readTurn", "yield"}

\* thread i is in the while loop of its lock call
InLoop(i) == pc[i] \in {"readFlag", "readTurn", "yield"}

\* C29: when both threads keep taking steps and a thread in the critical
\* section calls its unlock, a thread that has started lock0() or lock1()
\* eventually enters the critical section, and the two threads never both
\* stay in their loops forever.
C29_StarvationFree ==
    /\ \A i \in Threads : Locking(i) ~> pc[i] = "cs"
    /\ ~<>[](\A i \in Threads : InLoop(i))

\* thread 0 is in the critical section after running its loop body, while
\* thread 1, which has run its loop body too, is still in its loop
C29_Witness ==
    /\ pc[0] = "cs"
    /\ spun[0]
    /\ InLoop(1)
    /\ spun[1]
    /\ acquired[1] = MaxRounds

=============================================================================
